---- MODULE Spec2Model ----
(***************************************************************************)
(* A model of ddns-hosttech.py: the command line entry point (main), the   *)
(* reconciliation cycle (HosttechApi.update_dns) and the provider calls it *)
(* issues.  A domain is the sequence of its labels, i.e. domain.split('.'),*)
(* so "*.example.com" is <<"*", "example", "com">> and "" is <<"">>.       *)
(***************************************************************************)
EXTENDS Integers, Sequences, FiniteSets, TLC

VARIABLES
    pc,            \* position of main()/update_dns()
    token,         \* args.token
    cliDomain,     \* args.domain as parsed from -d/--domain (<<>> is None)
    envDomains,    \* default_domains, from the DOMAINS environment variable
    no_interval,   \* args.no_interval
    domains,       \* api.domains
    zone,          \* the provider's records of the zone
    nextId,        \* the identifier the provider gives to the next created record
    listOrder,     \* the order in which the provider lists the records
    current_ipv4,  \* update_dns local
    current_ipv6,  \* update_dns local
    di,            \* index of `domain` in the for loop over self.domains
    zone_id,       \* update_dns local
    records,       \* update_dns local
    ui,            \* index of `record` in the update loop
    calls,         \* the requests issued in the current cycle, in order
    cycle,         \* the number of update_dns calls started
    update_count_ipv4,  \* update_dns local
    update_count_ipv6,  \* update_dns local
    faults,        \* the number of failing responses so far
    clean,         \* no request of the current cycle has failed
    last_cycle     \* history: what the previous update_dns call did (LastCycle)

vars == <<pc, token, cliDomain, envDomains, no_interval, domains, zone, nextId,
          listOrder, current_ipv4, current_ipv6, di, zone_id, records, ui,
          calls, cycle, update_count_ipv4, update_count_ipv6, faults, clean,
          last_cycle>>

(***************************************************************************)
(* Bounds of the model.                                                    *)
(***************************************************************************)
MaxCycles == 2
MaxFaults == 1
MaxLabels == 3

(***************************************************************************)
(* Values.                                                                 *)
(***************************************************************************)
\* Python's None, as a record name or an address.
None == "<None>"
\* A key that the record's mapping does not hold.
Absent == "<absent>"
DefaultTtl == 3600
\* The ttl of a record whose mapping holds no "ttl".
NoTtl == 0

Root == <<"example", "com">>
Sub == <<"sub", "example", "com">>
Wild == <<"*", "example", "com">>
NoZone == <<"nozone", "invalid">>
\* ".example.com": more than two labels, the first one empty
EmptySub == <<"", "example", "com">>
Blank == <<"">>

IPv4s == {"1.1.1.1", "2.2.2.2"}
IPv6s == {"::1", "::2"}

Rec(id, type, name, ttl, ipv4, ipv6) ==
    [id |-> id, type |-> type, name |-> name, ttl |-> ttl, ipv4 |-> ipv4, ipv6 |-> ipv6]

\* the "data" of a response that holds none
NoEcho == Rec(0, Absent, Absent, NoTtl, Absent, Absent)

\* the history of a process that has not called update_dns yet
NoCycle == [clean |-> FALSE, ipv4 |-> None, ipv6 |-> None, undeleted |-> {}]

\* record.get(key) and record.get(key, default)
Get(value) == IF value = Absent THEN None ELSE value
GetOr(value, default) == IF value = Absent THEN default ELSE value

(***************************************************************************)
(* Classification of a domain, as each function computes it.               *)
(***************************************************************************)
\* domain.startswith('*.')
is_wildcard(domain) == Len(domain) >= 2 /\ domain[1] = "*"

\* get_zone_id: the domain the zone is looked up with
query_domain(domain) == IF is_wildcard(domain) THEN Tail(domain) ELSE domain

\* update_dns: acceptable_names
acceptable_names(domain) ==
    IF is_wildcard(domain) THEN {"*"}
    ELSE IF Len(domain) > 2 THEN {domain[1]}
    ELSE {"", "@", None}

\* update_dns: record_name
record_name(domain) ==
    IF is_wildcard(domain) THEN "*"
    ELSE IF Len(domain) > 2 THEN domain[1]
    ELSE ""

\* get_records: the filter applied to the zone's records
get_records_keeps(domain, r) ==
    IF is_wildcard(domain) THEN GetOr(r.name, "") = "*"
    ELSE LET subdomain == IF Len(domain) > 2 THEN domain[1] ELSE ""
         IN  IF subdomain # "" THEN GetOr(r.name, "") = subdomain
             ELSE Get(r.name) \in {"", "@", None}

(***************************************************************************)
(* The provider, as the program sees it through its requests.              *)
(***************************************************************************)
ZoneId == 7

\* GET /zones?query=<query>&limit=1: response.json()["data"], the identifiers of
\* at most one zone, the one whose name ends the query
find_zone(query) ==
    IF Len(query) >= 2 /\ SubSeq(query, Len(query) - 1, Len(query)) = Root
    THEN <<ZoneId>> ELSE <<>>

RECURSIVE ById(_, _)
ById(S, order) ==
    IF S = {} THEN <<>>
    ELSE LET r == CHOOSE x \in S : \A y \in S :
                     IF order = "asc" THEN x.id <= y.id ELSE x.id >= y.id
         IN  <<r>> \o ById(S \ {r}, order)

\* GET /zones/<zone_id>/records: response.json()["data"]
all_records(z, order) == ById(z, order)

\* get_records: the records of the listing kept for the domain
filtered_records(domain, all) ==
    SelectSeq(all, LAMBDA r : get_records_keeps(domain, r))

\* the record the provider stores, and echoes, for a PUT of send_data
put_record(r, sent) ==
    [r EXCEPT !.name = sent.name, !.ttl = sent.ttl,
              !.ipv4 = IF sent.ipv4 = Absent THEN r.ipv4 ELSE sent.ipv4,
              !.ipv6 = IF sent.ipv6 = Absent THEN r.ipv6 ELSE sent.ipv6]

(***************************************************************************)
(* The helpers of HosttechApi.                                             *)
(***************************************************************************)
\* an existence check that ignores the type of the records
record_exists_any_type(recs, rec_type, names) ==
    \E i \in 1..Len(recs) : Get(recs[i].name) \in names

\* _record_exists
record_exists(recs, rec_type, names) ==
    \E i \in 1..Len(recs) : Get(recs[i].type) = rec_type /\ Get(recs[i].name) \in names

\* the selection left in the order of the listing
unsorted(recs) == recs

\* sorted(..., key=lambda r: r.get("id")): a stable insertion sort
RECURSIVE sorted(_)
sorted(recs) ==
    IF recs = <<>> THEN <<>>
    ELSE LET rest == sorted(SubSeq(recs, 1, Len(recs) - 1))
             x == recs[Len(recs)]
             k == Cardinality({i \in 1..Len(rest) : rest[i].id <= x.id})
         IN  SubSeq(rest, 1, k) \o <<x>> \o SubSeq(rest, k + 1, Len(rest))

\* _deduplicate_records: dups
dups(recs, rec_type, names) ==
    sorted(SelectSeq(recs, LAMBDA r : Get(r.type) = rec_type /\ Get(r.name) \in names))

\* a deduplication that keeps the first two records: dups[2:]
to_delete_keeps_two(recs, rec_type, names) ==
    LET d == dups(recs, rec_type, names) IN IF Len(d) <= 2 THEN <<>> ELSE SubSeq(d, 3, Len(d))

\* _deduplicate_records: dups[1:], the records _delete_record is called for
to_delete(recs, rec_type, names) ==
    LET d == dups(recs, rec_type, names) IN IF d = <<>> THEN <<>> ELSE Tail(d)

\* update_record: record_ttl = record.get("ttl", 3600)
record_ttl(record) == IF record.ttl = NoTtl THEN DefaultTtl ELSE record.ttl

\* a request that sends create_record's ttl instead of the record's
send_data_default_ttl(record, new_ip) ==
    [type |-> record.type, name |-> GetOr(record.name, ""), ttl |-> DefaultTtl,
     ipv4 |-> IF record.type = "A" THEN new_ip ELSE Absent,
     ipv6 |-> IF record.type = "AAAA" THEN new_ip ELSE Absent]

\* update_record: send_data
send_data(record, new_ip) ==
    [type |-> record.type, name |-> GetOr(record.name, ""), ttl |-> record_ttl(record),
     ipv4 |-> IF record.type = "A" THEN new_ip ELSE Absent,
     ipv6 |-> IF record.type = "AAAA" THEN new_ip ELSE Absent]

\* a comparison that leaves the ttl out
valid_ignores_ttl(data, record, new_ip) ==
    /\ data.id = record.id
    /\ data.type = record.type
    /\ data.name = GetOr(record.name, "")
    /\ record.type = "A" => Get(data.ipv4) = new_ip
    /\ record.type = "AAAA" => Get(data.ipv6) = new_ip

\* update_record: valid, the comparison of the response with what was sent
valid(data, record, new_ip) ==
    /\ data.id = record.id
    /\ data.type = record.type
    /\ data.name = GetOr(record.name, "")
    /\ data.ttl = record_ttl(record)
    /\ record.type = "A" => Get(data.ipv4) = new_ip
    /\ record.type = "AAAA" => Get(data.ipv6) = new_ip

\* PUT /zones/<zone_id>/records/<id>: response.json()["data"] of a response with
\* status 200 that is not the updated record: the record as it was, or the
\* updated record with another id, type, name, ttl or address
Echoes(stored, sent) ==
    LET new == put_record(stored, sent) IN
    { stored,
      [new EXCEPT !.id = @ + 100],
      [new EXCEPT !.type = IF @ = "A" THEN "AAAA" ELSE "A"],
      [new EXCEPT !.name = "other"],
      [new EXCEPT !.ttl = @ + 1],
      [new EXCEPT !.ipv4 = IF sent.ipv4 = Absent THEN @ ELSE "0.0.0.0",
                  !.ipv6 = IF sent.ipv6 = Absent THEN @ ELSE "::"] } \ {new}

\* the response data of a PUT: the updated record when the provider applies it
\* ("ok"), one of Echoes when it answers 200 with something else ("echo"),
\* none when the status is not 200 ("error")
Responses(outcome, stored, sent) ==
    IF outcome = "ok" THEN {put_record(stored, sent)}
    ELSE IF outcome = "echo" THEN Echoes(stored, sent)
    ELSE {NoEcho}

\* create_wildcard_record: send_data, whose name is always "*"
created_wildcard_record(id, name, ip, ipv4) ==
    Rec(id, IF ipv4 THEN "A" ELSE "AAAA", "*", DefaultTtl,
        IF ipv4 THEN ip ELSE Absent, IF ipv4 THEN Absent ELSE ip)

\* create_record: send_data, as the record the provider stores under a new id
created_record(id, name, ip, ipv4) ==
    Rec(id, IF ipv4 THEN "A" ELSE "AAAA", name, DefaultTtl,
        IF ipv4 THEN ip ELSE Absent, IF ipv4 THEN Absent ELSE ip)

\* a check that asks for updates whenever the list holds an address record
need_update_always(recs, ipv4, ipv6) ==
    \E i \in 1..Len(recs) : Get(recs[i].type) \in {"A", "AAAA"}

\* a check that looks at the A records only
need_update_ipv4_only(recs, ipv4, ipv6) ==
    \E i \in 1..Len(recs) : Get(recs[i].type) = "A" /\ GetOr(recs[i].ipv4, "") # ipv4

\* update_dns: need_update_ipv4 or need_update_ipv6
need_update(recs, ipv4, ipv6) ==
    \E i \in 1..Len(recs) :
        \/ Get(recs[i].type) = "A" /\ GetOr(recs[i].ipv4, "") # ipv4
        \/ Get(recs[i].type) = "AAAA" /\ GetOr(recs[i].ipv6, "") # ipv6

\* update_dns: whether update_record is called for a record of the update loop
updates_record(record) == Get(record.type) \in {"A", "AAAA"}

(***************************************************************************)
(* The initial configurations and zones.                                   *)
(***************************************************************************)
\* (args.domain, default_domains) as the command line and the environment give them
Configs ==
    { <<cli, env>> \in
        {<<>>, <<Root>>, <<Sub>>, <<Wild>>, <<Blank>>, <<Root, Root>>, <<NoZone, Root>>,
         <<Root, Wild>>, <<Sub, NoZone>>}
        \X {<<>>, <<Root, Blank>>, <<Blank, Blank>>} :
        cli = <<>> \/ env = <<>> \/ cli = <<Wild>> }

InitialZones ==
    { {},
      {Rec(1, "A", "", 300, "1.1.1.1", Absent)},
      {Rec(1, "A", "", 300, "1.1.1.1", Absent), Rec(2, "AAAA", "@", 3600, Absent, "::1")},
      {Rec(1, "A", "", 300, "1.1.1.1", Absent), Rec(2, "A", "@", 3600, "2.2.2.2", Absent),
       Rec(3, "A", None, 3600, "1.1.1.1", Absent), Rec(4, "AAAA", Absent, 3600, Absent, "::2"),
       Rec(6, "TXT", "", 3600, Absent, Absent)},
      {Rec(9, "A", "*", 3600, "2.2.2.2", Absent), Rec(5, "A", "*", 3600, "1.1.1.1", Absent),
       Rec(6, "CNAME", "www", 3600, Absent, Absent)},
      {Rec(1, "A", "@", 3600, "2.2.2.2", Absent), Rec(2, "AAAA", "", 3600, Absent, "::1"),
       Rec(3, "AAAA", "", 300, Absent, "::2"), Rec(4, "A", "sub", 3600, "1.1.1.1", Absent),
       Rec(5, "AAAA", "sub", 3600, Absent, "::1"), Rec(7, "AAAA", "sub", 3600, Absent, "::1"),
       Rec(8, "AAAA", "*", 300, Absent, "::2"), Rec(9, "A", "sub", 300, "2.2.2.2", Absent)} }

Init ==
    /\ pc = "main"
    /\ token \in {"", "secret"}
    /\ \E c \in Configs : cliDomain = c[1] /\ envDomains = c[2]
    /\ no_interval \in BOOLEAN
    /\ domains = <<>>
    /\ zone \in InitialZones
    /\ nextId = 10
    /\ listOrder \in {"asc", "desc"}
    /\ current_ipv4 = None
    /\ current_ipv6 = None
    /\ di = 0
    /\ zone_id = 0
    /\ records = <<>>
    /\ ui = 0
    /\ calls = <<>>
    /\ update_count_ipv4 = 0
    /\ update_count_ipv6 = 0
    /\ cycle = 0
    /\ faults = 0
    /\ clean = TRUE
    /\ last_cycle = NoCycle

(***************************************************************************)
(* main                                                                    *)
(***************************************************************************)
\* args.domain after the defaults of the environment are applied
args_domain(cli, env) == IF cli = <<>> /\ env # <<>> THEN env ELSE cli

\* the validation of the required arguments: neither parser.error is reached
arguments_valid(tok, argsDomain) == tok # "" /\ argsDomain # <<>>

\* [d for d in args.domain if d]
remove_empty(argsDomain) == SelectSeq(argsDomain, LAMBDA d : d # Blank)

\* the history of the update_dns call that has just returned: whether all its
\* requests succeeded, the addresses it discovered if they did, and the records
\* whose delete call failed and that the zone still holds
LastCycle ==
    IF cycle = 0 THEN NoCycle
    ELSE [clean |-> clean,
          ipv4 |-> IF clean THEN current_ipv4 ELSE None,
          ipv6 |-> IF clean THEN current_ipv6 ELSE None,
          undeleted |-> {calls[k].id : k \in {j \in 1..Len(calls) :
                             /\ calls[j].op = "DELETE" /\ calls[j].result = "error"
                             /\ \E r \in zone : r.id = calls[j].id}}]

\* the locals of update_dns at its entry
EnterUpdateDns ==
    /\ pc' = "ipv4"
    /\ cycle' = cycle + 1
    /\ current_ipv4' = None
    /\ current_ipv6' = None
    /\ di' = 0
    /\ zone_id' = 0
    /\ records' = <<>>
    /\ ui' = 0
    /\ calls' = <<>>
    /\ update_count_ipv4' = 0
    /\ update_count_ipv6' = 0
    /\ clean' = TRUE
    /\ last_cycle' = LastCycle

\* main, from the parsed arguments to the initial api.update_dns()
main ==
    /\ pc = "main"
    /\ IF arguments_valid(token, args_domain(cliDomain, envDomains))
       THEN /\ domains' = remove_empty(args_domain(cliDomain, envDomains))
            /\ EnterUpdateDns
       ELSE /\ pc' = "error"
            /\ UNCHANGED <<domains, cycle, current_ipv4, current_ipv6, di, zone_id,
                           records, ui, calls, update_count_ipv4,
                           update_count_ipv6, clean, last_cycle>>
    /\ UNCHANGED <<token, cliDomain, envDomains, no_interval, zone, nextId, listOrder, faults>>

\* a loop head that breaks after a cycle in which a request failed
loop_head_stops_on_failure ==
    /\ pc = "returned"
    /\ pc' = IF no_interval \/ ~clean THEN "exit" ELSE "sleep"
    /\ UNCHANGED <<last_cycle, update_count_ipv4, update_count_ipv6, token, cliDomain, envDomains,
                   no_interval, domains, zone, nextId,
                   listOrder, current_ipv4, current_ipv6, di, zone_id, records, ui,
                   calls, cycle, faults, clean>>

\* a loop head that never breaks
loop_head_never_breaks ==
    /\ pc = "returned"
    /\ pc' = "sleep"
    /\ UNCHANGED <<last_cycle, update_count_ipv4, update_count_ipv6, token, cliDomain, envDomains,
                   no_interval, domains, zone, nextId,
                   listOrder, current_ipv4, current_ipv6, di, zone_id, records, ui,
                   calls, cycle, faults, clean>>

\* main: the head of the while loop, after an update_dns call returned
loop_head ==
    /\ pc = "returned"
    /\ pc' = IF no_interval THEN "exit" ELSE "sleep"
    /\ UNCHANGED <<last_cycle, update_count_ipv4, update_count_ipv6, token, cliDomain, envDomains,
                   no_interval, domains, zone, nextId,
                   listOrder, current_ipv4, current_ipv6, di, zone_id, records, ui,
                   calls, cycle, faults, clean>>

\* main: time.sleep(interval_seconds) returns and the scheduled update starts
scheduled_update ==
    /\ pc = "sleep"
    /\ cycle < MaxCycles
    /\ EnterUpdateDns
    /\ UNCHANGED <<token, cliDomain, envDomains, no_interval, domains, zone, nextId,
                   listOrder, faults>>

\* main: KeyboardInterrupt while sleeping
keyboard_interrupt ==
    /\ pc = "sleep"
    /\ pc' = "interrupted"
    /\ UNCHANGED <<last_cycle, update_count_ipv4, update_count_ipv6, token, cliDomain, envDomains,
                   no_interval, domains, zone, nextId,
                   listOrder, current_ipv4, current_ipv6, di, zone_id, records, ui,
                   calls, cycle, faults, clean>>

(***************************************************************************)
(* HosttechApi.update_dns, one action per request it issues.               *)
(***************************************************************************)
NoBody == [type |-> Absent, name |-> Absent, ttl |-> NoTtl, ipv4 |-> Absent, ipv6 |-> Absent]

\* a request of domain number dom and how it ended: "ok", "error" (it raised or
\* returned False on the status code) or "invalid" (update_record's valid is False);
\* body is what a POST or PUT sends, and holds the type a DELETE is issued for;
\* echo is response.json()["data"] of a PUT answered with status 200
Call(op, dom, result, query, id, body) ==
    [op |-> op, dom |-> dom, result |-> result, query |-> query, id |-> id, body |-> body,
     echo |-> NoEcho]

\* a response may fail while the budget of failures lasts
MayFail(ok) == ok \/ faults < MaxFaults
Fault(ok) == /\ faults' = (IF ok THEN faults ELSE faults + 1)
             /\ clean' = (clean /\ ok)

\* for domain in self.domains: where the loop goes after domain number i
for_next(i) == IF i + 1 > Len(domains) THEN "returned" ELSE "zone"

\* a cycle without the inner try: the first failing domain ends the loop
domain_except_aborts(i) == "returned"

\* except Exception (444-445): where update_dns goes when domain number i raised
domain_except(i) == for_next(i)

\* a discovery failure that ends the process
discovery_except_exits == "exit"

\* except Exception (447-448): where update_dns goes when IP discovery raised
discovery_except == "returned"

\* the for loop moves from domain number i to the next one
Continue(target, i) ==
    /\ pc' = target
    /\ di' = i + 1
    /\ zone_id' = 0
    /\ records' = <<>>
    /\ ui' = 0

\* an exception that is swallowed: the domain goes on as if the list were empty
Raise_swallowed(i) ==
    /\ pc' = "createA"
    /\ records' = <<>>
    /\ UNCHANGED <<di, zone_id, ui>>

\* an exception raised while domain number i is processed, caught at lines 444-445
Raise(i) == Continue(domain_except(i), i)

domain == domains[di]

\* current_ipv4 = self.get_current_ip(ipv4=True)
get_current_ipv4 ==
    /\ pc = "ipv4"
    /\ \E ok \in BOOLEAN, ip \in IPv4s :
        /\ MayFail(ok)
        /\ Fault(ok)
        /\ calls' = Append(calls, Call("IP4", 0, IF ok THEN "ok" ELSE "error", <<>>, 0, NoBody))
        /\ current_ipv4' = (IF ok THEN ip ELSE current_ipv4)
        /\ pc' = (IF ok THEN "ipv6" ELSE discovery_except)
    /\ UNCHANGED <<last_cycle, update_count_ipv4, update_count_ipv6, token, cliDomain, envDomains,
                   no_interval, domains, zone, nextId,
                   listOrder, current_ipv6, di, zone_id, records, ui, cycle>>

\* current_ipv6 = self.get_current_ip(ipv4=False)
get_current_ipv6 ==
    /\ pc = "ipv6"
    /\ \E ok \in BOOLEAN, ip \in IPv6s :
        /\ MayFail(ok)
        /\ Fault(ok)
        /\ calls' = Append(calls, Call("IP6", 0, IF ok THEN "ok" ELSE "error", <<>>, 0, NoBody))
        /\ current_ipv6' = (IF ok THEN ip ELSE current_ipv6)
        /\ IF ok THEN Continue(for_next(0), 0)
           ELSE pc' = discovery_except /\ UNCHANGED <<di, zone_id, records, ui>>
    /\ UNCHANGED <<last_cycle, update_count_ipv4, update_count_ipv6, token, cliDomain, envDomains,
                   no_interval, domains, zone, nextId,
                   listOrder, current_ipv4, cycle>>

\* zone_id = self.get_zone_id(domain)
get_zone_id ==
    /\ pc = "zone"
    /\ \E ok \in BOOLEAN :
        LET data == IF ok THEN find_zone(query_domain(domain)) ELSE <<>> IN
        /\ MayFail(ok)
        /\ faults' = (IF ok THEN faults ELSE faults + 1)
        /\ clean' = (clean /\ data # <<>>)
        /\ calls' = Append(calls, Call("ZONE", di, IF data # <<>> THEN "ok" ELSE "error",
                                       query_domain(domain), 0, NoBody))
        /\ IF data # <<>>
           THEN pc' = "records1" /\ zone_id' = data[1] /\ UNCHANGED <<di, records, ui>>
           ELSE Raise(di)
    /\ UNCHANGED <<last_cycle, update_count_ipv4, update_count_ipv6, token, cliDomain, envDomains,
                   no_interval, domains, zone, nextId,
                   listOrder, current_ipv4, current_ipv6, cycle>>

\* records = self.get_records(domain, zone_id), continuing at `target`
GetRecords(target) ==
    /\ \E ok \in BOOLEAN :
        /\ MayFail(ok)
        /\ Fault(ok)
        /\ calls' = Append(calls, Call("LIST", di, IF ok THEN "ok" ELSE "error", <<>>, 0, NoBody))
        /\ IF ok
           THEN /\ records' = filtered_records(domain, all_records(zone, listOrder))
                /\ pc' = target
                /\ UNCHANGED <<di, zone_id, ui>>
           ELSE Raise(di)
    /\ UNCHANGED <<last_cycle, update_count_ipv4, update_count_ipv6, token, cliDomain, envDomains,
                   no_interval, domains, zone, nextId,
                   listOrder, current_ipv4, current_ipv6, cycle>>

\* line 375
get_records_1 == pc = "records1" /\ GetRecords("dedupA")

\* a reconciliation that checks existence on the list fetched before deduplication
get_records_2_skipped ==
    /\ pc = "records2"
    /\ pc' = "createA"
    /\ UNCHANGED <<last_cycle, update_count_ipv4, update_count_ipv6, token, cliDomain, envDomains,
                   no_interval, domains, zone, nextId, listOrder, current_ipv4,
                   current_ipv6, di, zone_id, records, ui, calls, cycle, faults, clean>>

\* line 400
get_records_2 == pc = "records2" /\ GetRecords("createA")

\* a loop over the duplicates that ends with the first failed delete
issued_deletes_until_failure(doomed, failing) ==
    IF \E i \in 1..Len(doomed) : doomed[i].id \in failing
    THEN SubSeq(doomed, 1, CHOOSE i \in 1..Len(doomed) :
                    /\ doomed[i].id \in failing
                    /\ \A j \in 1..(i - 1) : doomed[j].id \notin failing)
    ELSE doomed

\* _deduplicate_records: for rec in dups[1:], the records _delete_record is called
\* for when the delete calls of `failing` return False (lines 351-353, 358-360)
issued_deletes(doomed, failing) == doomed

\* self._deduplicate_records(zone_id, records, rec_type, acceptable_names)
Deduplicate(rec_type, target) ==
    LET doomed == to_delete(records, rec_type, acceptable_names(domain))
        ids == {doomed[i].id : i \in 1..Len(doomed)}
    IN  \E failing \in SUBSET ids :
            LET issued == issued_deletes(doomed, failing) IN
            /\ Cardinality(failing) <= MaxFaults - faults
            /\ faults' = faults + Cardinality(failing)
            /\ clean' = (clean /\ failing = {})
            /\ calls' = calls \o [i \in 1..Len(issued) |->
                   Call("DELETE", di, IF issued[i].id \in failing THEN "error" ELSE "ok",
                        <<>>, issued[i].id, [NoBody EXCEPT !.type = rec_type])]
            /\ zone' = {r \in zone : \A i \in 1..Len(issued) :
                            r.id = issued[i].id => r.id \in failing}
            /\ pc' = target
            /\ UNCHANGED <<last_cycle, update_count_ipv4, update_count_ipv6, token, cliDomain, envDomains,
                   no_interval, domains, nextId,
                           listOrder, current_ipv4, current_ipv6, di, zone_id, records,
                           ui, cycle>>

\* a reconciliation without the deduplication of the AAAA records
deduplicate_A_only == pc = "dedupA" /\ Deduplicate("A", "records2")

\* line 394
deduplicate_A == pc = "dedupA" /\ Deduplicate("A", "dedupAAAA")

\* line 395
deduplicate_AAAA == pc = "dedupAAAA" /\ Deduplicate("AAAA", "records2")

\* if not self._record_exists(...): self.create_record(zone_id, record_name, ip, ipv4)
Create(rec_type, ip, target) ==
    /\ IF record_exists(records, rec_type, acceptable_names(domain))
       THEN UNCHANGED <<zone, nextId, calls, faults, clean>>
       ELSE \E ok \in BOOLEAN :
            LET new == created_record(nextId, record_name(domain), ip, rec_type = "A") IN
            /\ MayFail(ok)
            /\ Fault(ok)
            /\ calls' = Append(calls, Call("CREATE", di, IF ok THEN "ok" ELSE "error", <<>>, 0,
                   [type |-> new.type, name |-> new.name, ttl |-> new.ttl,
                    ipv4 |-> new.ipv4, ipv6 |-> new.ipv6]))
            /\ zone' = (IF ok THEN zone \cup {new} ELSE zone)
            /\ nextId' = (IF ok THEN nextId + 1 ELSE nextId)
    /\ pc' = target
    /\ UNCHANGED <<last_cycle, update_count_ipv4, update_count_ipv6, token, cliDomain, envDomains,
                   no_interval, domains, listOrder,
                   current_ipv4, current_ipv6, di, zone_id, records, ui, cycle>>

\* lines 402-404
create_A == pc = "createA" /\ Create("A", current_ipv4, "createAAAA")

\* lines 405-407
create_AAAA == pc = "createAAAA" /\ Create("AAAA", current_ipv6, "records3")

\* lines 410-428: the last listing and the decision whether the domain needs updates
get_records_3 ==
    /\ pc = "records3"
    /\ \E ok \in BOOLEAN :
        LET recs == filtered_records(domain, all_records(zone, listOrder)) IN
        /\ MayFail(ok)
        /\ Fault(ok)
        /\ calls' = Append(calls, Call("LIST", di, IF ok THEN "ok" ELSE "error", <<>>, 0, NoBody))
        /\ IF ~ok
           THEN /\ Raise(di)
                /\ UNCHANGED <<update_count_ipv4, update_count_ipv6>>
           ELSE IF recs = <<>> \/ ~need_update(recs, current_ipv4, current_ipv6)
                THEN /\ Continue(for_next(di), di)
                     /\ UNCHANGED <<update_count_ipv4, update_count_ipv6>>
                ELSE /\ records' = recs
                     /\ ui' = 1
                     /\ update_count_ipv4' = 0
                     /\ update_count_ipv6' = 0
                     /\ pc' = "update"
                     /\ UNCHANGED <<di, zone_id>>
    /\ UNCHANGED <<last_cycle, token, cliDomain, envDomains, no_interval, domains, zone, nextId,
                   listOrder, current_ipv4, current_ipv6, cycle>>

\* lines 433-439: one iteration of the update loop
update_records ==
    /\ pc = "update"
    /\ LET record == records[ui]
           new_ip == IF Get(record.type) = "A" THEN current_ipv4 ELSE current_ipv6
           stored == CHOOSE r \in zone : r.id = record.id
           sent == send_data(record, new_ip)
           Advance == IF ui = Len(records) THEN Continue(for_next(di), di)
                      ELSE ui' = ui + 1 /\ UNCHANGED <<pc, di, zone_id, records>>
       IN  IF ~updates_record(record)
           THEN /\ Advance
                /\ UNCHANGED <<zone, calls, update_count_ipv4, update_count_ipv6, faults, clean>>
           ELSE \E outcome \in {"ok", "error", "echo"} :
                \E data \in Responses(outcome, stored, sent) :
                LET result == IF outcome = "error" THEN "error"
                              ELSE IF valid(data, record, new_ip) THEN "ok" ELSE "invalid"
                IN  /\ MayFail(outcome = "ok")
                    /\ faults' = (IF outcome = "ok" THEN faults ELSE faults + 1)
                    /\ clean' = (clean /\ result = "ok")
                    /\ calls' = Append(calls, [Call("UPDATE", di, result, <<>>, record.id, sent)
                                               EXCEPT !.echo = data])
                    /\ zone' = (IF outcome = "ok"
                                THEN (zone \ {stored}) \cup {data} ELSE zone)
                    /\ update_count_ipv4' = update_count_ipv4 +
                           (IF result = "ok" /\ Get(record.type) = "A" THEN 1 ELSE 0)
                    /\ update_count_ipv6' = update_count_ipv6 +
                           (IF result = "ok" /\ Get(record.type) = "AAAA" THEN 1 ELSE 0)
                    /\ IF outcome = "error" THEN Raise(di)
                       ELSE Advance
    /\ UNCHANGED <<last_cycle, token, cliDomain, envDomains, no_interval, domains, nextId,
                   listOrder, current_ipv4, current_ipv6, cycle>>

Next ==
    \/ main
    \/ loop_head
    \/ scheduled_update
    \/ keyboard_interrupt
    \/ get_current_ipv4
    \/ get_current_ipv6
    \/ get_zone_id
    \/ get_records_1
    \/ deduplicate_A
    \/ deduplicate_AAAA
    \/ get_records_2
    \/ create_A
    \/ create_AAAA
    \/ get_records_3
    \/ update_records

Spec == Init /\ [][Next]_vars

(***************************************************************************)
(* The program started with -d .example.com, a domain of more than two     *)
(* labels whose first label is empty, on the zones of Init.                *)
(***************************************************************************)
EmptySubInit ==
    /\ pc = "main"
    /\ token \in {"", "secret"}
    /\ cliDomain = <<EmptySub>>
    /\ envDomains = <<>>
    /\ no_interval \in BOOLEAN
    /\ domains = <<>>
    /\ zone \in InitialZones
    /\ nextId = 10
    /\ listOrder \in {"asc", "desc"}
    /\ current_ipv4 = None
    /\ current_ipv6 = None
    /\ di = 0
    /\ zone_id = 0
    /\ records = <<>>
    /\ ui = 0
    /\ calls = <<>>
    /\ update_count_ipv4 = 0
    /\ update_count_ipv6 = 0
    /\ cycle = 0
    /\ faults = 0
    /\ clean = TRUE
    /\ last_cycle = NoCycle

EmptySubSpec == EmptySubInit /\ [][Next]_vars

(***************************************************************************)
(* The classification of one domain string, applied as get_zone_id,        *)
(* get_records and update_dns apply it, for every domain of up to          *)
(* MaxLabels labels.                                                       *)
(***************************************************************************)
Labels == {"", "*", "sub", "example", "com"}

RECURSIVE DomainsOf(_)
DomainsOf(n) ==
    IF n = 0 THEN {<<>>}
    ELSE {<<l>> \o d : l \in Labels, d \in DomainsOf(n - 1)}

\* domain.split('.') of the strings of 1..MaxLabels labels
Domains == UNION {DomainsOf(n) : n \in 1..MaxLabels}

\* a listing with a record of every kind of name
ClassifyZone ==
    { Rec(1, "A", "", 3600, "1.1.1.1", Absent), Rec(2, "A", "@", 3600, "1.1.1.1", Absent),
      Rec(3, "A", None, 3600, "1.1.1.1", Absent), Rec(4, "A", Absent, 3600, "1.1.1.1", Absent),
      Rec(5, "A", "*", 3600, "1.1.1.1", Absent), Rec(6, "A", "sub", 3600, "1.1.1.1", Absent),
      Rec(7, "A", "example", 3600, "1.1.1.1", Absent), Rec(8, "A", "com", 3600, "1.1.1.1", Absent),
      Rec(9, "TXT", "@", 3600, Absent, Absent), Rec(10, "AAAA", "sub", 3600, Absent, "::1") }

ClassifyInit ==
    /\ pc = "classify"
    /\ token = "secret"
    /\ \E d \in Domains : cliDomain = <<d>> /\ domains = <<d>>
    /\ envDomains = <<>>
    /\ no_interval = TRUE
    /\ zone = ClassifyZone
    /\ nextId = 10
    /\ listOrder \in {"asc", "desc"}
    /\ current_ipv4 = None
    /\ current_ipv6 = None
    /\ di = 1
    /\ zone_id = 0
    /\ records = <<>>
    /\ ui = 0
    /\ calls = <<>>
    /\ update_count_ipv4 = 0
    /\ update_count_ipv6 = 0
    /\ cycle = 1
    /\ faults = 0
    /\ clean = TRUE
    /\ last_cycle = NoCycle

\* the zone lookup key of get_zone_id and the filter of get_records for `domain`
classify ==
    /\ pc = "classify"
    /\ pc' = "classified"
    /\ calls' = <<Call("ZONE", di, "ok", query_domain(domain), 0, NoBody)>>
    /\ records' = filtered_records(domain, all_records(zone, listOrder))
    /\ UNCHANGED <<last_cycle, update_count_ipv4, update_count_ipv6, token, cliDomain, envDomains,
                   no_interval, domains, zone, nextId, listOrder, current_ipv4,
                   current_ipv6, di, zone_id, ui, cycle, faults, clean>>

ClassifyNext == classify

ClassifySpec == ClassifyInit /\ [][ClassifyNext]_vars

(***************************************************************************)
(* Properties.                                                             *)
(***************************************************************************)
CycleOver == pc \in {"returned", "sleep", "exit", "interrupted"} /\ cycle >= 1

\* the positions of the requests `op` of domain number i in the current cycle
CallsOf(op, i) == {k \in 1..Len(calls) : calls[k].op = op /\ calls[k].dom = i}

\* the address a listed record holds differs from the current one of its family
Stale(r) ==
    \/ r.type = "A" /\ GetOr(r.ipv4, "") # current_ipv4
    \/ r.type = "AAAA" /\ GetOr(r.ipv6, "") # current_ipv6

\* C1: during a cycle an update (PUT) call is issued for an A or AAAA record
\* only if the address the record holds differs from the current address of its
\* family; a record that is up to date gets no update call.
C1_UpdateOnlyWhenStale ==
    [][\A k \in (Len(calls) + 1)..Len(calls') :
          calls'[k].op = "UPDATE" => Stale(records[ui])]_vars

\* the records of the zone that domain d targets, of a type
Targets(d, rec_type) ==
    {r \in zone : r.type = rec_type /\ Get(r.name) \in acceptable_names(d)}

\* C2: after a cycle in which every call succeeded, for every configured domain
\* and each of A and AAAA, the zone holds exactly one record of that type with a
\* name in the domain's acceptable names.
C2_ExactlyOnePerType ==
    (CycleOver /\ clean) =>
        \A i \in 1..Len(domains) : \A t \in {"A", "AAAA"} :
            Cardinality(Targets(domains[i], t)) = 1

\* C2 witness: a cycle without failure that both deleted duplicates and created
\* missing records is over.
C2_Witness ==
    /\ CycleOver /\ clean
    /\ \E k \in 1..Len(calls) : calls[k].op = "DELETE"
    /\ \E k \in 1..Len(calls) : calls[k].op = "CREATE"
    /\ Len(domains) = 2

\* C3: a failed create, update or delete call affects only that operation: after
\* a failed update call the update loop goes on with the domain's next record.
C3_MutationFailureIsLocal ==
    [][(pc = "update" /\ ui < Len(records) /\ Len(calls') > Len(calls)
        /\ calls'[Len(calls')].op = "UPDATE" /\ calls'[Len(calls')].result = "error")
       => (pc' = "update" /\ ui' = ui + 1)]_vars

DiscoveryOk ==
    /\ \E k \in 1..Len(calls) : calls[k].op = "IP4" /\ calls[k].result = "ok"
    /\ \E k \in 1..Len(calls) : calls[k].op = "IP6" /\ calls[k].result = "ok"

\* C4: when a cycle is over, every configured domain has been processed (its zone
\* was looked up), whatever failed for the domains before it, and update_dns
\* has returned to its caller rather than raised.
C4_DomainsIndependent ==
    /\ pc # "raised"
    /\ (CycleOver /\ DiscoveryOk) =>
           \A i \in 1..Len(domains) : CallsOf("ZONE", i) # {}

\* C4 witness: the first of two domains failed and the second was reconciled.
C4_Witness ==
    /\ CycleOver
    /\ Len(domains) = 2
    /\ \E k \in 1..Len(calls) : calls[k].dom = 1 /\ calls[k].result = "error"
    /\ \E k \in CallsOf("LIST", 2) : calls[k].result = "ok"

DiscoveryFailed ==
    \E k \in 1..Len(calls) : calls[k].op \in {"IP4", "IP6"} /\ calls[k].result = "error"

\* C5: when the discovery of the IPv4 or of the IPv6 address fails, the cycle
\* issues no zone lookup, listing, delete, create or update call, and in
\* interval mode the process goes on to the next sleep instead of ending.
C5_DiscoveryFailureAbortsCycle ==
    DiscoveryFailed =>
        /\ \A k \in 1..Len(calls) : calls[k].op \in {"IP4", "IP6"}
        /\ pc \in {"returned", "sleep", "exit", "interrupted"}
        /\ (pc = "exit" => no_interval)

\* C5 witness: the IPv6 discovery failed after the IPv4 one succeeded, for a
\* configuration with domains, and the process sleeps until the next cycle.
C5_Witness ==
    /\ pc = "sleep"
    /\ Len(domains) > 0
    /\ Len(calls) = 2
    /\ calls[2].op = "IP6" /\ calls[2].result = "error"

\* args.domain without its blank entries, as the configuration gives it
ConfiguredDomains ==
    SelectSeq(IF cliDomain # <<>> THEN cliDomain ELSE envDomains, LAMBDA d : d # Blank)

\* C6: with an empty token, or a domain list that is missing or empty once the
\* blank entries are removed, main reports a configuration error and performs
\* no IP discovery, no provider call and no cycle.
C6_InvalidConfigurationNeverStarts ==
    (token = "" \/ ConfiguredDomains = <<>>) =>
        (pc \in {"main", "error"} /\ calls = <<>> /\ cycle = 0)

\* the identifiers a deduplication of a type is to delete: the listed records of
\* the type with an acceptable name, but the one of the lowest identifier
Selected(recs, rec_type, names) ==
    {recs[k].id : k \in {j \in 1..Len(recs) :
                            recs[j].type = rec_type /\ Get(recs[j].name) \in names}}
Doomed(recs, rec_type, names) ==
    LET ids == Selected(recs, rec_type, names)
    IN  {x \in ids : \E y \in ids : y < x}

DeletedIds(i) == {calls[k].id : k \in CallsOf("DELETE", i)}

\* C7: the delete calls a deduplication issues are exactly the selected records
\* (of the type, with an acceptable name) minus the one of the lowest identifier,
\* one call each; the record of the lowest identifier is never deleted.
C7_DeduplicateKeepsLowestId ==
    /\ pc = "dedupAAAA" =>
          /\ DeletedIds(di) = Doomed(records, "A", acceptable_names(domain))
          /\ Cardinality(CallsOf("DELETE", di)) = Cardinality(DeletedIds(di))
    /\ pc = "records2" =>
          /\ DeletedIds(di) = Doomed(records, "A", acceptable_names(domain))
                                \cup Doomed(records, "AAAA", acceptable_names(domain))
          /\ Cardinality(CallsOf("DELETE", di)) = Cardinality(DeletedIds(di))

\* C7 witness: of the two A records named * with the identifiers 5 and 9, the
\* deduplication for *.example.com deleted 9 and kept 5.
C7_Witness ==
    /\ pc = "records2"
    /\ domain = Wild
    /\ DeletedIds(di) = {9}
    /\ \E r \in zone : r.id = 5
    /\ \A r \in zone : r.id # 9

\* the deduplication of domain number i ran before, for the same domain
RanBefore(i) ==
    \E j \in 1..(i - 1) :
        /\ domains[j] = domains[i]
        /\ \E k \in CallsOf("LIST", j) : calls[k].result = "ok"

ExpectedName(d) ==
    IF Len(d) >= 2 /\ d[1] = "*" THEN "*" ELSE IF Len(d) > 2 THEN d[1] ELSE ""

\* the create call expected for a type, given the list fetched after deduplication
CreatesFor(rec_type, ip) ==
    LET made == {k \in CallsOf("CREATE", di) : calls[k].body.type = rec_type}
        missing == Selected(records, rec_type, acceptable_names(domain)) = {}
    IN  /\ Cardinality(made) = (IF missing THEN 1 ELSE 0)
        /\ \A k \in made :
              calls[k].body = [type |-> rec_type, name |-> ExpectedName(domain), ttl |-> 3600,
                               ipv4 |-> IF rec_type = "A" THEN ip ELSE Absent,
                               ipv6 |-> IF rec_type = "AAAA" THEN ip ELSE Absent]

\* C9: for each of A and AAAA a create call is issued for a domain exactly when
\* the list fetched after deduplication holds no record of that type with an
\* acceptable name; it carries the domain's record name, the type, the current
\* address of the family and the ttl 3600; at most one is issued per type.
C9_CreateExactlyWhenMissing ==
    /\ pc = "createAAAA" => CreatesFor("A", current_ipv4)
    /\ pc = "records3" => CreatesFor("A", current_ipv4) /\ CreatesFor("AAAA", current_ipv6)

\* C9 witness: for sub.example.com, with no record named sub, one create call per
\* type was issued.
C9_Witness ==
    /\ pc = "records3"
    /\ domain = Sub
    /\ Cardinality(CallsOf("CREATE", di)) = 2
    /\ \A k \in CallsOf("CREATE", di) : calls[k].body.name = "sub"

\* C10: in a cycle where every call succeeds, every listed A or AAAA record whose
\* address differs from the current one of its family receives an update call
\* carrying the current address, and when the cycle is over every A record of
\* every domain holds the current IPv4 and every AAAA record the current IPv6.
C10_StaleRecordsUpdated ==
    /\ (pc = "update" /\ clean) =>
          \A j \in 1..(ui - 1) : Stale(records[j]) =>
              \E k \in CallsOf("UPDATE", di) :
                  /\ calls[k].id = records[j].id
                  /\ records[j].type = "A" => calls[k].body.ipv4 = current_ipv4
                  /\ records[j].type = "AAAA" => calls[k].body.ipv6 = current_ipv6
    /\ (CycleOver /\ clean) =>
          \A i \in 1..Len(domains) :
              /\ \A r \in Targets(domains[i], "A") : r.ipv4 = current_ipv4
              /\ \A r \in Targets(domains[i], "AAAA") : r.ipv6 = current_ipv6

\* C10 witness: a cycle without failure that updated an A and an AAAA record
\* is over.
C10_Witness ==
    /\ CycleOver /\ clean
    /\ \E k \in 1..Len(calls) : calls[k].op = "UPDATE" /\ calls[k].body.type = "A"
    /\ \E k \in 1..Len(calls) : calls[k].op = "UPDATE" /\ calls[k].body.type = "AAAA"
                                  /\ calls[k].id < 10

(***************************************************************************)
(* C11: the request of an update call carries the type, the name and the   *)
(* ttl of the listed record it is issued for (the root name "" when the    *)
(* record holds no name) and the current address in ipv4 for an A record,  *)
(* in ipv6 for an AAAA record, the other field not being sent.             *)
(***************************************************************************)
C11_UpdateSendsOnlyNewAddress ==
    [][(pc = "update" /\ Len(calls') > Len(calls)) =>
        LET record == records[ui]
            call == calls'[Len(calls')]
            sent == call.body
        IN  /\ call.op = "UPDATE"
            /\ call.id = record.id
            /\ sent.type = record.type
            /\ sent.name = (IF record.name = Absent THEN "" ELSE record.name)
            /\ record.ttl # NoTtl => sent.ttl = record.ttl
            /\ record.type = "A" => sent.ipv4 = current_ipv4 /\ sent.ipv6 = Absent
            /\ record.type = "AAAA" => sent.ipv6 = current_ipv6 /\ sent.ipv4 = Absent]_vars

\* an A record of ttl 300 and an AAAA record without a name were updated
C11_Witness ==
    /\ \E k \in 1..Len(calls) :
          /\ calls[k].op = "UPDATE" /\ calls[k].result = "ok"
          /\ calls[k].body.type = "A" /\ calls[k].body.ttl = 300
          /\ calls[k].body.ipv4 = "2.2.2.2"
    /\ \E k \in 1..Len(calls) :
          /\ calls[k].op = "UPDATE" /\ calls[k].result = "ok"
          /\ calls[k].id = 4 /\ calls[k].body.name = "" /\ calls[k].body.ipv6 = "::1"

(***************************************************************************)
(* C12: an update call answered with HTTP success is counted in the        *)
(* success count of its type exactly when the response echoes the id, the  *)
(* type, the name, the ttl and the address field as they were sent;        *)
(* otherwise no count changes, the loop goes on to the next record, and no *)
(* update call is issued twice for a record in one pass over the domain.   *)
(***************************************************************************)
C12_UpdateCountedOnlyWhenEchoed ==
    [][(pc = "update" /\ Len(calls') > Len(calls)) =>
        LET call == calls'[Len(calls')]
            sent == call.body
            data == call.echo
            echoed == /\ data.id = call.id
                      /\ data.type = sent.type
                      /\ data.name = sent.name
                      /\ data.ttl = sent.ttl
                      /\ sent.type = "A" => data.ipv4 = sent.ipv4
                      /\ sent.type = "AAAA" => data.ipv6 = sent.ipv6
        IN  /\ \A k \in CallsOf("UPDATE", di) : calls[k].id # call.id
            /\ call.result # "error" =>
                  /\ (call.result = "ok") <=> echoed
                  /\ update_count_ipv4' = update_count_ipv4 +
                         (IF echoed /\ sent.type = "A" THEN 1 ELSE 0)
                  /\ update_count_ipv6' = update_count_ipv6 +
                         (IF echoed /\ sent.type = "AAAA" THEN 1 ELSE 0)
                  /\ \/ pc' = "update" /\ di' = di /\ ui' = ui + 1
                     \/ ui = Len(records) /\ di' = di + 1]_vars

\* an update whose response differs in the ttl alone was not counted, and the
\* update of the next record was issued and counted
C12_Witness ==
    \E k \in 1..Len(calls) : \E k2 \in (k + 1)..Len(calls) :
        /\ calls[k].op = "UPDATE" /\ calls[k].result = "invalid"
        /\ calls[k].echo = [id |-> calls[k].id, type |-> calls[k].body.type,
                            name |-> calls[k].body.name, ttl |-> calls[k].body.ttl + 1,
                            ipv4 |-> calls[k].body.ipv4, ipv6 |-> calls[k].body.ipv6]
        /\ calls[k2].op = "UPDATE" /\ calls[k2].result = "ok"
        /\ calls[k2].dom = calls[k].dom /\ calls[k].dom = di
        /\ pc = "update"
        /\ update_count_ipv4 + update_count_ipv6 = 1

(***************************************************************************)
(* C13: with --no-interval main runs update_dns once and exits, whether or *)
(* not the cycle failed: it never sleeps or starts a second cycle, and   *)
(* the step after update_dns returned is the exit.  Without the flag the   *)
(* process never exits on its own, and what follows a sleep is one further *)
(* cycle (or the interrupt).                                               *)
(***************************************************************************)
C13_SingleRunOnceIntervalForever ==
    /\ [](no_interval => cycle <= 1 /\ pc \notin {"sleep", "interrupted"})
    /\ [](pc = "exit" => no_interval /\ cycle = 1)
    /\ [][pc = "returned" /\ no_interval => pc' = "exit" /\ calls' = calls]_vars
    /\ [][pc = "sleep" /\ pc' # "interrupted" =>
             pc' = "ipv4" /\ cycle' = cycle + 1 /\ calls' = <<>>]_vars

\* a single run has exited after a cycle in which a request failed
C13_Witness ==
    /\ no_interval /\ pc = "exit" /\ cycle = 1
    /\ ~clean /\ faults > 0 /\ Len(calls) > 2

InUpdateDns ==
    pc \in {"ipv4", "ipv6", "zone", "records1", "dedupA", "dedupAAAA", "records2",
            "createA", "createAAAA", "records3", "update"}

(***************************************************************************)
(* C14: in interval mode no failure inside a cycle ends the process: a     *)
(* step taken inside update_dns stays inside it or returns from it, the    *)
(* step after its return is the sleep whether or not a request failed, the *)
(* process has never exited once a cycle started, and the only step that   *)
(* ends the loop is the interrupt of a sleep.                              *)
(***************************************************************************)
C14_FailureNeverEndsIntervalLoop ==
    /\ [](~no_interval /\ cycle >= 1 => pc \in {"returned", "sleep", "interrupted"} \/ InUpdateDns)
    /\ [][~no_interval /\ InUpdateDns => InUpdateDns' \/ pc' = "returned"]_vars
    /\ [][~no_interval /\ pc = "returned" => pc' = "sleep" /\ cycle' = cycle]_vars
    /\ [][pc' = "interrupted" => pc = "sleep"]_vars

\* a second cycle ran to its end, and the process sleeps again, after a first
\* cycle in which a request failed
C14_Witness ==
    /\ ~no_interval /\ pc = "sleep" /\ cycle = 2
    /\ faults = 1 /\ clean /\ Len(calls) > 2

StartsWithStarDot(d) == Len(d) >= 2 /\ d[1] = "*"

ExpectedKey(d) == IF StartsWithStarDot(d) THEN Tail(d) ELSE d

ExpectedRecordName(d) ==
    IF StartsWithStarDot(d) THEN "*" ELSE IF Len(d) > 2 THEN d[1] ELSE ""

ExpectedNames(d) ==
    IF StartsWithStarDot(d) THEN {"*"}
    ELSE IF Len(d) > 2 THEN {d[1]}
    ELSE {"", "@", None}

(***************************************************************************)
(* C15: for every domain the zone lookup key, the record name and the      *)
(* acceptable names of update_dns, and the names get_records keeps, are    *)
(* those of the classification: "*." prefix -> (domain without the prefix, *)
(* "*", {"*"}); more than two labels -> (domain, first label, {first       *)
(* label}); otherwise (domain, "", {"", "@", null}).                       *)
(***************************************************************************)
C15_ClassificationAgrees ==
    pc = "classified" =>
        /\ calls[1].query = ExpectedKey(domain)
        /\ record_name(domain) = ExpectedRecordName(domain)
        /\ acceptable_names(domain) = ExpectedNames(domain)
        /\ {records[i] : i \in 1..Len(records)} =
               {r \in zone : Get(r.name) \in ExpectedNames(domain)}

(***************************************************************************)
(* C16: within a domain the delete calls for A records come before those   *)
(* for AAAA records, every delete call comes before every create and      *)
(* update call of the domain, and the control goes from the A pass to the  *)
(* AAAA pass to the listing that precedes the creates: delete calls are    *)
(* issued in the two passes only, create and update calls after them.      *)
(***************************************************************************)
C16_PhasesOrdered ==
    /\ [](\A i \in 1..Len(domains) : \A k \in CallsOf("DELETE", i) :
            /\ \A k2 \in CallsOf("CREATE", i) \cup CallsOf("UPDATE", i) : k < k2
            /\ \A k2 \in CallsOf("DELETE", i) :
                  calls[k].body.type = "A" /\ calls[k2].body.type = "AAAA" => k < k2)
    /\ [][/\ pc = "dedupA" => pc' = "dedupAAAA" /\ di' = di
          /\ pc = "dedupAAAA" => pc' = "records2" /\ di' = di
          /\ pc' = "createA" => pc = "records2"
          /\ pc' = "update" => pc \in {"records3", "update"}
          /\ \A k \in (Len(calls) + 1)..Len(calls') :
                /\ calls'[k].op = "DELETE" =>
                      pc = (IF calls'[k].body.type = "A" THEN "dedupA" ELSE "dedupAAAA")
                /\ calls'[k].op = "CREATE" => pc \in {"createA", "createAAAA"}
                /\ calls'[k].op = "UPDATE" => pc = "update"]_vars

\* a domain with delete calls for both types followed by update calls
C16_Witness ==
    \E i \in 1..Len(domains) :
        /\ \E k \in CallsOf("DELETE", i) : calls[k].body.type = "A"
        /\ \E k \in CallsOf("DELETE", i) : calls[k].body.type = "AAAA"
        /\ CallsOf("UPDATE", i) # {}

\* the calls of the kinds `ops` that domain number i issued after its last
\* successful listing (all of them when it has none)
SinceListed(i, ops) ==
    {k \in 1..Len(calls) :
        /\ calls[k].dom = i /\ calls[k].op \in ops
        /\ \A l \in CallsOf("LIST", i) : calls[l].result = "ok" => l < k}

(***************************************************************************)
(* C17: every create decision and every update decision of a domain is     *)
(* taken on a list fetched after the last delete or create call of the     *)
(* domain.                                                                 *)
(***************************************************************************)
C17_DecisionsOnFreshList ==
    /\ pc \in {"createA", "createAAAA"} => SinceListed(di, {"DELETE", "CREATE"}) = {}
    /\ pc = "update" => SinceListed(di, {"DELETE", "CREATE"}) = {}

(***************************************************************************)
(* C17, as the code has it: the existence checks of both types are made on *)
(* the list fetched after the last delete call and before the first create *)
(* call of the domain (the AAAA check after a create of the A record       *)
(* included), and that list is the provider's; the update decision is      *)
(* taken on a list fetched after the last delete and the last create call. *)
(***************************************************************************)
C17_DecisionsOnListAfterDeletes ==
    /\ pc \in {"createA", "createAAAA"} =>
          /\ SinceListed(di, {"DELETE"}) = {}
          /\ \E l \in CallsOf("LIST", di) :
                /\ calls[l].result = "ok"
                /\ \A k \in CallsOf("DELETE", di) \cup CallsOf("CREATE", di) :
                      k > l <=> calls[k].op = "CREATE"
          /\ pc = "createA" => records = filtered_records(domain, all_records(zone, listOrder))
    /\ pc = "update" =>
          /\ SinceListed(di, {"DELETE", "CREATE"}) = {}
          /\ ui = 1 => records = filtered_records(domain, all_records(zone, listOrder))

\* the update decision of a domain that deleted a duplicate and created a record
C17_Witness ==
    /\ pc = "update" /\ ui = 1
    /\ CallsOf("DELETE", di) # {}
    /\ CallsOf("CREATE", di) # {}

(***************************************************************************)
(* C18: when a delete call of a domain failed, the delete calls of both    *)
(* passes were still issued for every duplicate of the list, the domain    *)
(* went on to the listing that precedes the creates, and a record whose    *)
(* delete call failed in the previous cycle and that the domain lists      *)
(* again as a duplicate gets a delete call again.                          *)
(***************************************************************************)
C18_FailedDeleteDoesNotStopDeduplication ==
    /\ [](\A i \in 1..Len(domains) : \A k \in CallsOf("DELETE", i) :
            calls[k].result = "error" =>
              /\ (i = di /\ pc = "dedupAAAA") =>
                    DeletedIds(i) = Doomed(records, "A", acceptable_names(domain))
              /\ (i = di /\ pc = "records2") =>
                    DeletedIds(i) = Doomed(records, "A", acceptable_names(domain))
                                     \cup Doomed(records, "AAAA", acceptable_names(domain))
              /\ (i < di \/ CycleOver \/ (i = di /\ pc \in {"createA", "createAAAA",
                                                           "records3", "update"})) =>
                    \E l \in CallsOf("LIST", i) : l > k)
    /\ [](cycle >= 2 /\ pc = "records2" =>
            \A id \in last_cycle.undeleted :
                id \in Selected(records, "A", acceptable_names(domain))
                         \cup Selected(records, "AAAA", acceptable_names(domain))
                  => id \in DeletedIds(di))
    /\ [][\A k \in (Len(calls) + 1)..Len(calls') :
            calls'[k].op = "DELETE" /\ calls'[k].result = "error" =>
                di' = di /\ pc' \in {"dedupAAAA", "records2"}]_vars

\* the delete call of a record failed in the first cycle and the second cycle
\* has issued it again
C18_Witness ==
    /\ cycle = 2 /\ pc = "records2"
    /\ last_cycle.undeleted # {}
    /\ last_cycle.undeleted \subseteq DeletedIds(di)

(***************************************************************************)
(* C19: after a failed zone lookup or a failed listing of a domain no      *)
(* delete, create or update call is issued for it in the cycle, the step   *)
(* of the failure leaves the domain, and in every cycle, the ones after a  *)
(* failure included, the calls of a domain start with its zone lookup and  *)
(* a cycle starts with none of the locals of the previous one.             *)
(***************************************************************************)
C19_FailedDomainSkippedThenRetried ==
    /\ [](\A i \in 1..Len(domains) : \A k \in CallsOf("ZONE", i) \cup CallsOf("LIST", i) :
            calls[k].result = "error" =>
                \A k2 \in CallsOf("DELETE", i) \cup CallsOf("CREATE", i) \cup CallsOf("UPDATE", i) :
                    k2 < k)
    /\ [](\A i \in 1..Len(domains) :
            /\ (DiscoveryOk /\ (i < di \/ CycleOver)) => CallsOf("ZONE", i) # {}
            /\ \A k \in 1..Len(calls) :
                  calls[k].dom = i => \E z \in CallsOf("ZONE", i) : z <= k)
    /\ [][/\ \A k \in (Len(calls) + 1)..Len(calls') :
               calls'[k].op \in {"ZONE", "LIST"} /\ calls'[k].result = "error" =>
                   di' = di + 1 /\ pc' \in {"zone", "returned"}
          /\ cycle' = cycle + 1 =>
               di' = 0 /\ zone_id' = 0 /\ records' = <<>> /\ calls' = <<>>]_vars

\* a domain without a zone failed in the first cycle and its zone is looked up
\* again in the second cycle
C19_Witness ==
    /\ cycle = 2 /\ faults = 0 /\ ~last_cycle.clean
    /\ Len(domains) = 2 /\ domains[1] = NoZone
    /\ \E k \in CallsOf("ZONE", 1) : calls[k].result = "error"
    /\ \E k \in CallsOf("LIST", 2) : calls[k].result = "ok"

(***************************************************************************)
(* C20: a cycle that follows a cycle in which every request succeeded, and *)
(* that discovers the same IPv4 and IPv6 addresses, issues no delete, no   *)
(* create and no update call.                                              *)
(***************************************************************************)
C20_CycleAfterCleanCycleChangesNothing ==
    (/\ cycle >= 2
     /\ last_cycle.clean
     /\ current_ipv4 = last_cycle.ipv4
     /\ current_ipv6 = last_cycle.ipv6) =>
        \A k \in 1..Len(calls) : calls[k].op \notin {"DELETE", "CREATE", "UPDATE"}

\* the second cycle of two domains is over, after a first cycle that created a
\* record and in which every request succeeded, with the same addresses
C20_Witness ==
    /\ cycle = 2 /\ CycleOver /\ clean
    /\ last_cycle.clean
    /\ current_ipv4 = last_cycle.ipv4 /\ current_ipv6 = last_cycle.ipv6
    /\ Len(domains) = 2
    /\ nextId > 10
    /\ Cardinality(CallsOf("LIST", 1)) = 3 /\ Cardinality(CallsOf("LIST", 2)) = 3

\* record r of the zone is a target: an A or AAAA record whose name is one of
\* the acceptable names of a configured domain
IsTarget(r) ==
    /\ Get(r.type) \in {"A", "AAAA"}
    /\ \E j \in 1..Len(domains) : Get(r.name) \in acceptable_names(domains[j])

(***************************************************************************)
(* C21: every delete and every update call is issued for a record of type  *)
(* A or AAAA whose name is an acceptable name of the domain it is issued   *)
(* for, every create call sends such a type and the record name of its     *)
(* domain, and a step changes, removes or adds no record of the zone that  *)
(* is not such a target.                                                   *)
(***************************************************************************)
C21_OnlyTargetsMutated ==
    [][/\ \A k \in (Len(calls) + 1)..Len(calls') :
            /\ calls'[k].op \in {"DELETE", "UPDATE"} =>
                  \E r \in zone :
                      /\ r.id = calls'[k].id
                      /\ Get(r.type) \in {"A", "AAAA"}
                      /\ Get(r.name) \in acceptable_names(domains[calls'[k].dom])
            /\ calls'[k].op = "CREATE" =>
                  /\ calls'[k].body.type \in {"A", "AAAA"}
                  /\ calls'[k].body.name = record_name(domains[calls'[k].dom])
       /\ \A r \in zone : ~IsTarget(r) => r \in zone'
       /\ \A r \in zone' \ zone : IsTarget(r)]_vars

(***************************************************************************)
(* C22: for every domain and every record of the listing, get_records      *)
(* keeps the record exactly when its name is one of the acceptable names   *)
(* update_dns derives for the domain, whatever its type, so that the A and *)
(* the AAAA records of the list are the records the existence check and    *)
(* the deduplication select.                                               *)
(***************************************************************************)
C22_FilterAgreesWithAcceptableNames ==
    pc = "classified" =>
        /\ \A r \in zone :
              (\E i \in 1..Len(records) : records[i] = r)
                  <=> Get(r.name) \in acceptable_names(domain)
        /\ \A t \in {"A", "AAAA"} :
              {records[i].id : i \in {j \in 1..Len(records) : records[j].type = t}}
                  = Selected(records, t, acceptable_names(domain))

====
